---------------------------- MODULE Spec2Model ----------------------------
(***************************************************************************)
(* A model of kiji: KijiDownloader (src/downloader.py) and KijiUploader    *)
(* (src/uploader.py).                                                      *)
(*                                                                         *)
(* Text is a sequence of tokens.  A title or a body is a sequence of       *)
(* strings, the empty sequence being Python's "".  A date text is a        *)
(* sequence of records [k, v]: k = "num" is a maximal run of digits whose  *)
(* int() is v, k = "nen" / "gatsu" / "nichi" / "ji" / "fun" is one of the  *)
(* unit markers (year, month, day, hour, minute), k = "sp" is any other    *)
(* character.  A formatted "%Y-%m-%d %H:%M:%S" text is the tuple           *)
(* <<Y, m, d, H, M, S>> of the numbers it prints.                          *)
(***************************************************************************)
EXTENDS Integers, Sequences, FiniteSets, TLC

VARIABLES
    pc,            \* control point of the running script or call
    arg,           \* the argument of the function under call (unit specifications)
    ret,           \* what the call returned or raised
    now,           \* the wall clock, in seconds after the model's epoch
    run,           \* completed runs of download + upload
    feeds,         \* the web: what fetching each source's feed gives
    store,         \* the rows of the articles table
    src,           \* download: index of the source in the registry
    article_urls,  \* download_source: the URLs of the source's feed
    au,            \* download_source: index of the URL in article_urls
    new_articles,  \* download_source: its list "articles"
    articles,      \* download: its list "articles"
    per_source,    \* what each call of download_source returned, in order
    incoming,      \* the CSV files of the incoming directory
    writes,        \* how many CSV files the current download has written
    filtered,      \* process_articles: filtered_articles
    idx,           \* process_articles: index of the article in filtered_articles
    processed,     \* process_articles: its counters
    outcomes,      \* process_articles: what became of each filtered article
    store0,        \* the rows of the table when process_articles was called
    inserted,      \* every committed insert: <<run, article>>
    crash          \* the exception that ended download(), and where it rose

Null == [none |-> TRUE]

(***************************************************************************)
(* datetime                                                                *)
(***************************************************************************)
IsLeap(y) == (y % 4 = 0) /\ ((y % 100 # 0) \/ (y % 400 = 0))

DaysInMonth(y, m) ==
    IF m = 2 THEN (IF IsLeap(y) THEN 29 ELSE 28)
    ELSE IF m \in {4, 6, 9, 11} THEN 30 ELSE 31

\* datetime.datetime(yyyy, mm, dd, hour, minute) raises ValueError unless this
\* holds (datetime.MINYEAR is 1, datetime.MAXYEAR is 9999)
ValidDateTime(y, m, d, h, mi) ==
    /\ y >= 1 /\ y <= 9999
    /\ m >= 1 /\ m <= 12
    /\ d >= 1 /\ d <= DaysInMonth(y, m)
    /\ h >= 0 /\ h <= 23
    /\ mi >= 0 /\ mi <= 59

\* strftime("%Y-%m-%d %H:%M:%S"), as the numbers it prints
Strftime(y, m, d, h, mi, s) == <<y, m, d, h, mi, s>>

\* datetime.datetime.now().strftime(...) when the clock reads t: the clock
\* starts at 2021-05-04 00:00:00 and the model never runs a minute
ClockText(t) == Strftime(2021, 5, 4, 0, 0, t)

(***************************************************************************)
(* KijiDownloader.jp_date_to_yyyymmdd                                      *)
(***************************************************************************)
Raise(e) == [exc |-> e, val |-> <<>>]
Return(v) == [exc |-> "none", val |-> v]

\* re.findall(r'(\d*)<marker>', dt)[0] followed by int(): the digits right
\* before the first marker.  No marker: [] has no [0], IndexError.  No digit
\* before it: int('') is a ValueError.
FirstGroup(marker, dt) ==
    LET at == {i \in 1..Len(dt) : dt[i].k = marker} IN
    IF at = {} THEN Raise("IndexError")
    ELSE LET i == CHOOSE j \in at : \A l \in at : j <= l IN
         IF i > 1 /\ dt[i - 1].k = "num" THEN Return(dt[i - 1].v)
         ELSE Raise("ValueError")

\* The exceptions the function's try statement handles
JpDateCatches(e) == e \in {"TypeError", "IndexError"}

\* The five extractions run in this order; the first that raises ends the try body
JpDateTry(dt) ==
    LET yyyy == FirstGroup("nen", dt)
        mm == FirstGroup("gatsu", dt)
        dd == FirstGroup("nichi", dt)
        hour == FirstGroup("ji", dt)
        minute == FirstGroup("fun", dt)
    IN  IF yyyy.exc # "none" THEN yyyy
        ELSE IF mm.exc # "none" THEN mm
        ELSE IF dd.exc # "none" THEN dd
        ELSE IF hour.exc # "none" THEN hour
        ELSE IF minute.exc # "none" THEN minute
        ELSE IF ~ValidDateTime(yyyy.val, mm.val, dd.val, hour.val, minute.val)
             THEN Raise("ValueError")
        ELSE Return(Strftime(yyyy.val, mm.val, dd.val, hour.val, minute.val, 0))

\* jp_date_to_yyyymmdd(dt) when the clock reads t
jp_date_to_yyyymmdd(dt, t) ==
    LET dt_text == ClockText(t)
        body == JpDateTry(dt)
    IN  IF body.exc = "none" THEN body
        ELSE IF JpDateCatches(body.exc) THEN Return(dt_text)
        ELSE body

(***************************************************************************)
(* Date texts the calls are tried on                                       *)
(***************************************************************************)
Tok(k, v) == [k |-> k, v |-> v]

\* One component of a date text: its marker is absent, stands with no digit
\* before it, or follows the number c.v
Piece(marker, c) ==
    IF c.d = "absent" THEN <<>>
    ELSE IF c.d = "nodigits" THEN <<Tok(marker, 0)>>
    ELSE <<Tok("num", c.v), Tok(marker, 0)>>

Num(v) == [d |-> "num", v |-> v]

DateText(y, m, d, h, mi) ==
    Piece("nen", y) \o Piece("gatsu", m) \o Piece("nichi", d)
        \o <<Tok("sp", 0)>> \o Piece("ji", h) \o Piece("fun", mi)

Defects == {[d |-> "absent", v |-> 0], [d |-> "nodigits", v |-> 0]}
Years == {Num(v) : v \in {2021, 2020, 0}} \cup Defects
Months == {Num(v) : v \in {5, 2, 4, 13}} \cup Defects
Days == {Num(v) : v \in {3, 29, 31, 0}} \cup Defects
Hours == {Num(v) : v \in {9, 24}} \cup Defects
Minutes == {Num(v) : v \in {15, 60}} \cup Defects

DateTexts ==
    {DateText(y, m, d, h, mi) :
        y \in Years, m \in Months, d \in Days, h \in Hours, mi \in Minutes}

\* A date text that parses, 2021-05-03 09:15, and one whose minute marker is missing
GoodDate == DateText(Num(2021), Num(5), Num(3), Num(9), Num(15))
NoMarkerDate == DateText(Num(2021), Num(5), Num(3), Num(9), [d |-> "absent", v |-> 0])
\* A date text whose month is 13
BadMonthDate == DateText(Num(2021), Num(13), Num(3), Num(9), Num(15))

(***************************************************************************)
(* Sequences                                                               *)
(***************************************************************************)
RECURSIVE Flatten(_)
Flatten(ss) == IF ss = <<>> THEN <<>> ELSE Head(ss) \o Flatten(Tail(ss))

Contains(s, x) == \E i \in 1..Len(s) : s[i] = x

\* list.remove(x): s without its first x
RemoveFirst(s, x) ==
    LET i == CHOOSE j \in 1..Len(s) : s[j] = x /\ \A l \in 1..(j - 1) : s[l] # x
    IN  SubSeq(s, 1, i - 1) \o SubSeq(s, i + 1, Len(s))

RemoveAt(s, i) == SubSeq(s, 1, i - 1) \o SubSeq(s, i + 1, Len(s))

SeqsUpTo(S, n) == UNION {[1..k -> S] : k \in 0..n}

(***************************************************************************)
(* KijiDownloader.download_rss_nhk, download_rss_asahi                     *)
(*                                                                         *)
(* A feed document is a sequence of lines, a line the sequence of the      *)
(* URLs of its <link>URL</link> elements.  A string found by the pattern   *)
(* is the sequence of the URLs it holds: <<u>> is the URL u, and           *)
(* <<u, v>> is the text "u</link><link>v".                                 *)
(***************************************************************************)
NHK == 1
Asahi == 2

NhkBadUrl == "http://www3.nhk.or.jp/news/"
AsahiBadUrl == "https://www.asahi.com/"

bad_urls(datasource) ==
    IF datasource = NHK THEN <<NhkBadUrl>> ELSE <<AsahiBadUrl>>

\* re.findall(r'<link>(.*)</link>', page_text): '.' does not match a line
\* break and '.*' is greedy, so a line gives one string, from after its first
\* <link> to before its last </link>
FindLinks(page_text) ==
    LET RECURSIVE Scan(_)
        Scan(lines) ==
            IF lines = <<>> THEN <<>>
            ELSE IF Head(lines) = <<>> THEN Scan(Tail(lines))
            ELSE <<Head(lines)>> \o Scan(Tail(lines))
    IN  Scan(page_text)

\* for bu in bad_urls: if bu in article_urls: article_urls.remove(bu)
RECURSIVE StripBadUrls(_, _)
StripBadUrls(urls, bus) ==
    IF bus = <<>> THEN urls
    ELSE LET bu == <<Head(bus)>> IN
         StripBadUrls(IF Contains(urls, bu) THEN RemoveFirst(urls, bu) ELSE urls,
                      Tail(bus))

\* Exception and its subclasses
IsException(e) == e \notin {"KeyboardInterrupt", "SystemExit"}

\* The handlers of download_rss_*: except HTTPError, except Exception
RssCatchesHttpOnly(e) == e = "HTTPError"

RssCatches(e) == e = "HTTPError" \/ IsException(e)

\* download_rss_nhk / download_rss_asahi, fetched being what
\* str(urlopen(request).read(), 'UTF-8') returns or raises
download_rss(datasource, fetched) ==
    IF fetched.exc = "none"
        THEN Return(StripBadUrls(FindLinks(fetched.val), bad_urls(datasource)))
    ELSE IF RssCatches(fetched.exc) THEN Return(<<>>)
    ELSE fetched

(***************************************************************************)
(* Feed documents the calls are tried on                                   *)
(***************************************************************************)
MaxFeedLines == 4
MaxLineLinks == 2

FeedUrls(datasource) == {bad_urls(datasource)[1], "u1", "u2"}

FeedLines(datasource) ==
    {l \in SeqsUpTo(FeedUrls(datasource), MaxLineLinks) : l # <<>>}

FeedDocs(datasource) == SeqsUpTo(FeedLines(datasource), MaxFeedLines)

(***************************************************************************)
(* KijiDownloader.download_articles_asahi, download_articles_nhk           *)
(*                                                                         *)
(* A page is what BeautifulSoup finds in it.  An element that may be       *)
(* missing is a record with a field "has".  An h1 element is the sequence  *)
(* of its children, each a text node or a span with its text.  The time    *)
(* element and the content div lie outside the h1 elements.                *)
(***************************************************************************)
Absent == [has |-> FALSE, text |-> <<>>]
Present(t) == [has |-> TRUE, text |-> t]

TextNode(t) == [tag |-> "text", text |-> t]
Span(t) == [tag |-> "span", text |-> t]

\* tag.text: the texts of the children, joined
TagText(kids) == Flatten([i \in 1..Len(kids) |-> kids[i].text])

HasSpan(kids) == \E i \in 1..Len(kids) : kids[i].tag = "span"

\* h1_tag.find('span'): the first span
FirstSpan(kids) ==
    CHOOSE i \in 1..Len(kids) :
        kids[i].tag = "span" /\ \A j \in 1..(i - 1) : kids[j].tag # "span"

\* The exceptions each try statement of the adapters handles
FieldCatches(e) == e = "AttributeError"

\* What one field's try statement leaves in the field: the value, the value
\* the field had before the try statement, or the exception going up
Field(tried, before) ==
    IF tried.exc = "none" THEN tried
    ELSE IF FieldCatches(tried.exc) THEN Return(before)
    ELSE tried

\* The three fields are extracted in this order; an exception that no try
\* statement handles ends the call
Triple(title, date, body) ==
    IF title.exc # "none" THEN title
    ELSE IF date.exc # "none" THEN date
    ELSE IF body.exc # "none" THEN body
    ELSE Return(<<title.val, date.val, body.val>>)

\* Asahi page: [h1s: sequence of h1 elements, time: the time element,
\*              div: <div class="nfyQp">, ps: the texts of its <p> elements]
AsahiTitle(page) ==
    IF page.h1s = <<>> THEN Raise("IndexError")
    ELSE LET h1_tag == page.h1s[Len(page.h1s)]
             kept == IF HasSpan(h1_tag) THEN RemoveAt(h1_tag, FirstSpan(h1_tag))
                     ELSE h1_tag
         IN  Return(TagText(kept))

AsahiDate(page, t) ==
    IF ~page.time.has THEN Raise("AttributeError")
    ELSE jp_date_to_yyyymmdd(page.time.text, t)

AsahiBody(page) ==
    IF ~page.div.has THEN Raise("AttributeError")
    ELSE Return(Flatten(page.div.text))

\* download_articles_asahi(url), fetched being what
\* str(urlopen(request).read(), 'UTF-8') returns or raises, t the clock
download_articles_asahi(fetched, t) ==
    IF fetched.exc # "none" THEN fetched
    ELSE LET page == fetched.val IN
         Triple(Field(AsahiTitle(page), <<>>),
                Field(AsahiDate(page, t), <<>>),
                Field(AsahiBody(page), <<>>))

\* NHK page: [h1: <h1 class="content--title">, its text the children,
\*            date_p: <p class="content--date">, its text the time element,
\*            summary: <p class="content--summary">,
\*            div: <div class="maincontent_body text">, the texts of its <p>]
NhkTitle(page) ==
    IF ~page.h1.has THEN Raise("AttributeError")
    ELSE IF ~HasSpan(page.h1.text) THEN Raise("AttributeError")
    ELSE Return(page.h1.text[FirstSpan(page.h1.text)].text)

NhkDate(page, t) ==
    IF ~page.date_p.has THEN Raise("AttributeError")
    ELSE IF ~page.date_p.text.has THEN Raise("AttributeError")
    ELSE jp_date_to_yyyymmdd(page.date_p.text.text, t)

NhkBody(page) ==
    IF page.summary.has THEN Return(page.summary.text)
    ELSE IF ~page.div.has THEN Raise("AttributeError")
    ELSE Return(Flatten(page.div.text))

download_articles_nhk(fetched, t) ==
    IF fetched.exc # "none" THEN fetched
    ELSE LET page == fetched.val IN
         Triple(Field(NhkTitle(page), <<>>),
                Field(NhkDate(page, t), <<>>),
                Field(NhkBody(page), <<>>))

\* self.download_articles[datasource]
download_articles(datasource, fetched, t) ==
    IF datasource = NHK THEN download_articles_nhk(fetched, t)
    ELSE download_articles_asahi(fetched, t)

(***************************************************************************)
(* Pages the calls are tried on                                            *)
(***************************************************************************)
PageDates == {GoodDate, NoMarkerDate}
Paragraphs == {<<>>, <<<<"p">>>>, <<<<"p">>, <<"q">>>>}

H1s ==
    {<<TextNode(<<"T">>)>>, <<Span(<<"s">>), TextNode(<<"T">>)>>,
     <<Span(<<"s">>)>>, <<TextNode(<<"T">>), Span(<<"s">>), Span(<<"r">>)>>}

Opt(S) == {Absent} \cup {Present(x) : x \in S}

AsahiPages ==
    [h1s : SeqsUpTo(H1s, 2), time : Opt(PageDates), div : Opt(Paragraphs)]

NhkPages ==
    [h1 : Opt(H1s), date_p : Opt(Opt(PageDates)),
     summary : Opt({<<"sum">>}), div : Opt(Paragraphs)]

(***************************************************************************)
(* KijiDownloader.__init__: the registry                                   *)
(***************************************************************************)
Source(url, genre, datasource) ==
    [url |-> url, genre |-> genre, datasource |-> datasource]

sources ==
    << Source("http://www3.nhk.or.jp/rss/news/cat1.xml", 1, NHK),
       Source("http://www3.nhk.or.jp/rss/news/cat2.xml", 2, NHK),
       Source("http://www3.nhk.or.jp/rss/news/cat3.xml", 3, NHK),
       Source("http://www3.nhk.or.jp/rss/news/cat4.xml", 4, NHK),
       Source("http://www3.nhk.or.jp/rss/news/cat5.xml", 5, NHK),
       Source("http://www3.nhk.or.jp/rss/news/cat6.xml", 6, NHK),
       Source("http://www3.nhk.or.jp/rss/news/cat7.xml", 7, NHK),
       Source("http://www3.asahi.com/rss/national.rdf", 1, Asahi),
       Source("http://www3.asahi.com/rss/politics.rdf", 4, Asahi),
       Source("http://www3.asahi.com/rss/sports.rdf", 7, Asahi),
       Source("http://www3.asahi.com/rss/business.rdf", 5, Asahi),
       Source("http://www3.asahi.com/rss/international.rdf", 6, Asahi),
       Source("http://www3.asahi.com/rss/culture.rdf", 2, Asahi) >>

\* The runs are modelled over two neighbours of the registry, the last NHK
\* source and the first Asahi source, kept in registry order
Registry == <<sources[7], sources[8]>>

Article(title, body, pub_date, source, genre) ==
    [title |-> title, body |-> body, pub_date |-> pub_date,
     source |-> source, genre |-> genre]

(***************************************************************************)
(* The web of the runs: the article pages behind the URLs of the feeds     *)
(***************************************************************************)
NhkPage(h1, time, ps) ==
    [h1 |-> h1, date_p |-> Present(time), summary |-> Absent, div |-> Present(ps)]

AsahiPage(h1s, time, ps) ==
    [h1s |-> h1s, time |-> time, div |-> Present(ps)]

\* What str(urlopen(request).read(), 'UTF-8') gives for an article URL:
\*   a1   a page with title, date and body
\*   a2   a page whose date text lacks the minute marker
\*   a3   a page with no title text
\*   bad  the fetch raises URLError
\*   boom a page whose date text names month 13
\*   a5   a page with no time element
\*   a6   a page with no date paragraph (NHK), with no time element (Asahi)
Web(datasource, url) ==
    LET Timed(title, time, ps) ==
            IF datasource = NHK
                THEN NhkPage(Present(<<Span(title)>>), time, ps)
                ELSE AsahiPage(<<<<Span(<<"new">>), TextNode(title)>>>>, time, ps)
        Page(title, date, ps) == Timed(title, Present(date), ps)
    IN  CASE url = "a5" -> Return(Timed(<<"T5">>, Absent, <<<<"B5">>>>))
          [] url = "a6" ->
                Return(IF datasource = NHK
                           THEN [Timed(<<"T6">>, Absent, <<<<"B6">>>>)
                                    EXCEPT !.date_p = Absent]
                           ELSE Timed(<<"T6">>, Absent, <<<<"B6">>>>))
          [] url = "a1" -> Return(Page(<<"T1">>, GoodDate, <<<<"B1">>>>))
          [] url = "a2" -> Return(Page(<<"T2">>, NoMarkerDate, <<<<"B2">>, <<"b2">>>>))
          [] url = "a3" -> Return(Page(<<>>, GoodDate, <<<<"B3">>>>))
          [] url = "bad" -> Raise("URLError")
          [] url = "boom" -> Return(Page(<<"T4">>, BadMonthDate, <<<<"B4">>>>))

ArticleUrls == {"a1", "a2", "a3", "bad", "boom"}

MaxLinks == 2

\* The feeds of the runs hold one <link> element a line
RunFeedDocs ==
    {[i \in 1..Len(us) |-> <<us[i]>>] : us \in SeqsUpTo(ArticleUrls, MaxLinks)}

FeedFetches ==
    {Return(d) : d \in RunFeedDocs} \cup {Raise("HTTPError"), Raise("UnicodeDecodeError")}

(***************************************************************************)
(* CSV: DataFrame.to_csv, then pandas.read_csv and tuple(row)              *)
(*                                                                         *)
(* A value of a text column is [null, v]: read_csv reads an empty field    *)
(* as NaN, which sqlite3 binds as NULL.                                    *)
(***************************************************************************)
NaN == [null |-> TRUE, v |-> <<>>]
Value(v) == [null |-> FALSE, v |-> v]

CsvField(text) == IF text = <<>> THEN NaN ELSE Value(text)

\* One row of the file as the tuple process_articles gets
CsvTuple(a) ==
    <<CsvField(a.title), CsvField(a.body), CsvField(a.pub_date), a.source, a.genre>>

read_csv(file) == [i \in 1..Len(file) |-> CsvTuple(file[i])]

(***************************************************************************)
(* sqlite3 and KijiUploader                                                *)
(***************************************************************************)
\* A token of a statement's column list: SQLite takes a quoted string for a
\* column name, and a number is a syntax error
Str(name) == [kind |-> "string", text |-> name]
Number(n) == [kind |-> "number", text |-> n]

TableColumns == {"id", "title", "body", "pub_date", "source", "genre", "status"}

INSERT_ARTICLE ==
    [columns |-> <<Str("title"), Str("body"), Str("pub_date"), Str("source"),
                   Str("genre"), Number("0")>>,
     params |-> 6]

SqlEq(a, b) == ~a.null /\ ~b.null /\ a.v = b.v

\* CHECK_FOR_ARTICLE: the rows the SELECT matches
Matches(rows, article) ==
    {i \in 1..Len(rows) :
        /\ SqlEq(rows[i].title, article[1])
        /\ SqlEq(rows[i].body, article[2])
        /\ SqlEq(rows[i].pub_date, article[3])
        /\ rows[i].source = article[4]
        /\ rows[i].genre = article[5]}

is_in_database(rows, article) == Cardinality(Matches(rows, article)) > 0

\* CREATE_TABLES: "title" TEXT NOT NULL UNIQUE, "body" TEXT NOT NULL
ViolatesConstraint(rows, row) ==
    \/ row.title.null
    \/ row.body.null
    \/ \E i \in 1..Len(rows) : SqlEq(rows[i].title, row.title)

Row(id, article, status) ==
    [id |-> id, title |-> article[1], body |-> article[2], pub_date |-> article[3],
     source |-> article[4], genre |-> article[5], status |-> status]

NextId(rows) == IF rows = <<>> THEN 1 ELSE rows[Len(rows)].id + 1

\* An INSERT that checks nothing
ExecuteUnchecked(rows, stmt, article) ==
    Return(Append(rows, Row(NextId(rows), article, 0)))

\* self.db.execute(statement, article) for an INSERT statement: the rows of
\* the table after it, or the exception it raises
Execute(rows, stmt, article) ==
    IF \E i \in 1..Len(stmt.columns) : stmt.columns[i].kind = "number"
        THEN Raise("OperationalError")
    ELSE IF \E i \in 1..Len(stmt.columns) : stmt.columns[i].text \notin TableColumns
        THEN Raise("OperationalError")
    ELSE IF stmt.params # Len(article) \/ stmt.params # Len(stmt.columns)
        THEN Raise("ProgrammingError")
    ELSE IF ViolatesConstraint(rows, Row(NextId(rows), article, 0))
        THEN Raise("IntegrityError")
    ELSE Return(Append(rows, Row(NextId(rows), article, 0)))

\* The article list comprehension of process_articles
FilterNew(rows, batch) ==
    LET New(article) == ~is_in_database(rows, article) IN SelectSeq(batch, New)

\* The index process_articles goes on with after a failed insert
AfterFailureStop(i, n) == n + 1

AfterFailure(i, n) == i + 1

\* Rows a table may hold before the first run: the article of a1 as the NHK
\* source gives it, and an article titled T2 stored by an earlier run
OldRows ==
    << Row(1, <<Value(<<"T1">>), Value(<<"B1">>), Value(Strftime(2021, 5, 3, 9, 15, 0)),
                NHK, 7>>, 0),
       Row(2, <<Value(<<"T2">>), Value(<<"B2", "b2">>), Value(ClockText(0)),
                NHK, 7>>, 0) >>

InitialStores == {<<>>, OldRows}

pvars ==
    <<run, feeds, store, src, article_urls, au, new_articles, articles, per_source,
      incoming, writes, filtered, idx, processed, outcomes, store0, inserted, crash>>

vars == <<pc, arg, ret, now, pvars>>

NoCrash == [exc |-> "none", at |-> "none"]

\* The state of the scripts before any run
NoRun ==
    /\ run = 0
    /\ src = 0
    /\ article_urls = <<>>
    /\ au = 0
    /\ new_articles = <<>>
    /\ articles = <<>>
    /\ per_source = <<>>
    /\ incoming = <<>>
    /\ writes = 0
    /\ filtered = <<>>
    /\ idx = 0
    /\ processed = [total |-> 0, success |-> 0, failure |-> 0]
    /\ outcomes = <<>>
    /\ inserted = <<>>
    /\ crash = NoCrash

\* The unit specifications run no script
Idle ==
    /\ NoRun
    /\ feeds = <<>>
    /\ store = <<>>
    /\ store0 = <<>>


(***************************************************************************)
(* SpecDate: jp_date_to_yyyymmdd called on every date text                 *)
(***************************************************************************)
InitDate ==
    /\ pc = "call_jp_date"
    /\ arg \in DateTexts
    /\ ret = Null
    /\ now \in {0, 1}
    /\ Idle

CallJpDate ==
    /\ pc = "call_jp_date"
    /\ ret' = jp_date_to_yyyymmdd(arg, now)
    /\ pc' = "returned"
    /\ UNCHANGED <<arg, now, pvars>>

SpecDate == InitDate /\ [][CallJpDate]_vars

(***************************************************************************)
(* SpecRss: download_rss_* called on every feed document                   *)
(***************************************************************************)
InitRss ==
    /\ pc = "call_download_rss"
    /\ \E ds \in {NHK, Asahi} :
           arg \in {[datasource |-> ds, fetched |-> Return(d)] : d \in FeedDocs(ds)}
                   \cup {[datasource |-> ds, fetched |-> Raise(e)] :
                            e \in {"HTTPError", "UnicodeDecodeError"}}
    /\ ret = Null
    /\ now = 0
    /\ Idle

CallDownloadRss ==
    /\ pc = "call_download_rss"
    /\ ret' = download_rss(arg.datasource, arg.fetched)
    /\ pc' = "returned"
    /\ UNCHANGED <<arg, now, pvars>>

SpecRss == InitRss /\ [][CallDownloadRss]_vars

(***************************************************************************)
(* SpecAdapter: download_articles_* called on every page                   *)
(***************************************************************************)
InitAdapter ==
    /\ pc = "call_download_articles"
    /\ arg \in [datasource : {NHK}, fetched : {Return(p) : p \in NhkPages}]
               \cup [datasource : {Asahi}, fetched : {Return(p) : p \in AsahiPages}]
    /\ ret = Null
    /\ now \in {0, 1}
    /\ Idle

CallDownloadArticles ==
    /\ pc = "call_download_articles"
    /\ ret' = download_articles(arg.datasource, arg.fetched, now)
    /\ pc' = "returned"
    /\ UNCHANGED <<arg, now, pvars>>

SpecAdapter == InitAdapter /\ [][CallDownloadArticles]_vars

(***************************************************************************)
(* Spec: download, then upload, run after run against an unchanged web     *)
(***************************************************************************)
MaxRuns == 2

\* The handler of download_source: except urllib.request.URLError, of which
\* HTTPError is a subclass
SourceCatchesNothing(e) == FALSE

SourceCatches(e) == e \in {"URLError", "HTTPError"}

Init ==
    /\ pc = "idle"
    /\ arg = Null
    /\ ret = Null
    /\ now = 0
    /\ NoRun
    /\ feeds \in [1..Len(Registry) -> FeedFetches]
    /\ store \in InitialStores
    /\ store0 = store

\* download(): start_logger(), articles = []; a run starts after the one before
StartDownload ==
    /\ pc = "idle"
    /\ run < MaxRuns
    /\ now' = now + 1
    /\ articles' = <<>>
    /\ per_source' = <<>>
    /\ writes' = 0
    /\ src' = 1
    /\ pc' = "download_source"
    /\ UNCHANGED <<arg, ret, run, feeds, store, article_urls, au, new_articles,
                   incoming, filtered, idx, processed, outcomes, store0, inserted,
                   crash>>

\* download_source(source), up to its loop: the feed is fetched
DownloadRss ==
    /\ pc = "download_source"
    /\ LET got == download_rss(Registry[src].datasource, feeds[src]) IN
           IF got.exc = "none"
               THEN /\ article_urls' = got.val
                    /\ new_articles' = <<>>
                    /\ au' = 1
                    /\ pc' = "download_articles"
                    /\ crash' = crash
               ELSE /\ crash' = [exc |-> got.exc, at |-> "download_rss"]
                    /\ pc' = "crashed"
                    /\ UNCHANGED <<article_urls, new_articles, au>>
    /\ UNCHANGED <<arg, ret, now, run, feeds, store, src, articles, per_source,
                   incoming, writes, filtered, idx, processed, outcomes, store0,
                   inserted>>

\* One turn of the loop of download_source
DownloadArticle ==
    /\ pc = "download_articles"
    /\ au <= Len(article_urls)
    /\ LET source == Registry[src]
           got == download_articles(source.datasource,
                                    Web(source.datasource, article_urls[au][1]), now)
       IN  IF got.exc = "none"
               THEN /\ new_articles' =
                        Append(new_articles,
                               Article(got.val[1], got.val[3], got.val[2],
                                       source.datasource, source.genre))
                    /\ au' = au + 1
                    /\ UNCHANGED <<pc, crash>>
           ELSE IF SourceCatches(got.exc)
               THEN /\ au' = au + 1
                    /\ UNCHANGED <<pc, crash, new_articles>>
           ELSE /\ crash' = [exc |-> got.exc, at |-> "download_articles"]
                /\ pc' = "crashed"
                /\ UNCHANGED <<au, new_articles>>
    /\ UNCHANGED <<arg, ret, now, run, feeds, store, src, article_urls, articles,
                   per_source, incoming, writes, filtered, idx, processed, outcomes,
                   store0, inserted>>

\* download_source returns; download extends its list and takes the next source
ReturnSource ==
    /\ pc = "download_articles"
    /\ au > Len(article_urls)
    /\ articles' = articles \o new_articles
    /\ per_source' = Append(per_source, new_articles)
    /\ IF src < Len(Registry)
           THEN src' = src + 1 /\ pc' = "download_source"
           ELSE src' = src /\ pc' = "write_csv"
    /\ UNCHANGED <<arg, ret, now, run, feeds, store, article_urls, au, new_articles,
                   incoming, writes, filtered, idx, processed, outcomes, store0,
                   inserted, crash>>

\* article_df.to_csv(filename)
WriteCsv ==
    /\ pc = "write_csv"
    /\ incoming' = Append(incoming, articles)
    /\ writes' = writes + 1
    /\ pc' = "downloaded"
    /\ UNCHANGED <<arg, ret, now, run, feeds, store, src, article_urls, au,
                   new_articles, articles, per_source, filtered, idx, processed,
                   outcomes, store0, inserted, crash>>

\* upload(): the file is read and process_articles filters it
ProcessArticles ==
    /\ pc = "downloaded"
    /\ filtered' = FilterNew(store, read_csv(incoming[1]))
    /\ processed' = [total |-> 0, success |-> 0, failure |-> 0]
    /\ outcomes' = <<>>
    /\ store0' = store
    /\ idx' = 1
    /\ pc' = "insert_articles"
    /\ UNCHANGED <<arg, ret, now, run, feeds, store, src, article_urls, au,
                   new_articles, articles, per_source, incoming, writes, inserted,
                   crash>>

\* One turn of the loop of process_articles: execute, commit, count
InsertArticle ==
    /\ pc = "insert_articles"
    /\ idx <= Len(filtered)
    /\ LET article == filtered[idx]
           got == Execute(store, INSERT_ARTICLE, article)
       IN  IF got.exc = "none"
               THEN /\ store' = got.val
                    /\ processed' = [processed EXCEPT !.total = @ + 1, !.success = @ + 1]
                    /\ outcomes' = Append(outcomes, "success")
                    /\ inserted' = Append(inserted, <<run + 1, article>>)
                    /\ idx' = idx + 1
               ELSE /\ processed' = [processed EXCEPT !.total = @ + 1, !.failure = @ + 1]
                    /\ outcomes' = Append(outcomes, "failure")
                    /\ idx' = AfterFailure(idx, Len(filtered))
                    /\ UNCHANGED <<store, inserted>>
    /\ UNCHANGED <<pc, arg, ret, now, run, feeds, src, article_urls, au, new_articles,
                   articles, per_source, incoming, writes, filtered, store0, crash>>

\* process_articles returns; upload moves the file to the processed directory
FinishUpload ==
    /\ pc = "insert_articles"
    /\ idx > Len(filtered)
    /\ incoming' = Tail(incoming)
    /\ run' = run + 1
    /\ pc' = "idle"
    /\ UNCHANGED <<arg, ret, now, feeds, store, src, article_urls, au, new_articles,
                   articles, per_source, writes, filtered, idx, processed, outcomes,
                   store0, inserted, crash>>

Next ==
    \/ StartDownload
    \/ DownloadRss
    \/ DownloadArticle
    \/ ReturnSource
    \/ WriteCsv
    \/ ProcessArticles
    \/ InsertArticle
    \/ FinishUpload

Spec == Init /\ [][Next]_vars

(***************************************************************************)
(* SpecBatch: the runs over feeds of pages whose date may not be read      *)
(***************************************************************************)
DateUrls == {"a1", "a2", "a5", "a6"}

InitBatch ==
    /\ pc = "idle"
    /\ arg = Null
    /\ ret = Null
    /\ now = 0
    /\ NoRun
    /\ feeds \in [1..Len(Registry) ->
                     {Return([i \in 1..Len(us) |-> <<us[i]>>]) :
                         us \in SeqsUpTo(DateUrls, MaxLinks)}]
    /\ store = <<>>
    /\ store0 = store

SpecBatch == InitBatch /\ [][Next]_vars

(***************************************************************************)
(* Properties                                                              *)
(***************************************************************************)
\* The text columns of an article tuple but its pub_date, and its codes
SamePage(a, b) == a[1] = b[1] /\ a[2] = b[2] /\ a[4] = b[4] /\ a[5] = b[5]

\* C1: over the runs of download + upload against an unchanged web no
\* article (one page of one source, whatever pub_date the run gave it) is
\* inserted twice, and no run after the first inserts a row.
C1_Idempotence ==
    /\ \A i, j \in 1..Len(inserted) :
           i # j => ~SamePage(inserted[i][2], inserted[j][2])
    /\ \A i \in 1..Len(inserted) : inserted[i][1] = 1

\* The second run is over, and its process_articles tried an article whose
\* pub_date is this run's clock, which no earlier run can have stored
C1_Witness ==
    /\ pc = "idle" /\ run = 2
    /\ processed.total = Len(filtered)
    /\ \E i \in 1..Len(filtered) :
           filtered[i][3] = Value(ClockText(now)) /\ ~filtered[i][1].null

RowTuple(r) == <<r.title, r.body, r.pub_date, r.source, r.genre>>

\* C2: no two rows of the articles table hold the same (title, body,
\* pub_date, source, genre); an article that stands in the filtered batch a
\* second time fails to insert, and the table grows by the successes only.
C2_StoreUniqueness ==
    /\ \A i, j \in 1..Len(store) : i # j => RowTuple(store[i]) # RowTuple(store[j])
    /\ \A j \in 1..Len(outcomes) :
           (\E i \in 1..(j - 1) : filtered[i] = filtered[j]) => outcomes[j] = "failure"
    /\ pc = "insert_articles" => Len(store) = Len(store0) + processed.success

\* Both copies of an article with a title and a body passed the filter and
\* were tried
C2_Witness ==
    /\ pc = "insert_articles"
    /\ Len(outcomes) >= 2
    /\ filtered[1] = filtered[2]
    /\ ~filtered[1][1].null /\ ~filtered[1][2].null
    /\ outcomes[2] = "failure"
    /\ Len(store) = Len(store0)

\* C3: when process_articles has returned, every article of its batch that
\* has a title and a body and whose title the table did not hold is a row
\* of the table.
C3_ArticleStored ==
    (pc = "idle" /\ run >= 1) =>
        \A i \in 1..Len(articles) :
            LET a == CsvTuple(articles[i]) IN
            (/\ ~a[1].null
             /\ ~a[2].null
             /\ \A k \in 1..Len(store0) : ~SqlEq(store0[k].title, a[1]))
                => \E k \in 1..Len(store) : RowTuple(store[k]) = a

\* What download_source is to return for the URLs us of a source: the
\* articles of the URLs whose fetch raises no URLError, in the order of us
RECURSIVE ExpectedArticles(_, _, _)
ExpectedArticles(source, us, t) ==
    IF us = <<>> THEN <<>>
    ELSE LET fetched == Web(source.datasource, Head(us)[1])
             got == download_articles(source.datasource, fetched, t)
             rest == ExpectedArticles(source, Tail(us), t)
         IN  IF fetched.exc = "URLError" THEN rest
             ELSE <<Article(got.val[1], got.val[3], got.val[2],
                            source.datasource, source.genre)>> \o rest

Failing(datasource, us) ==
    {i \in 1..Len(us) : Web(datasource, us[i][1]).exc = "URLError"}

\* C4: in download_source the URLs whose fetch raises URLError are skipped
\* and nothing else is: after each turn of the loop the list holds the
\* articles of the other URLs so far, in feed order; a URLError never ends
\* the call; and a source with N URLs of which k raise URLError returns
\* N - k articles.
C4_PartialBatch ==
    /\ pc = "download_articles" =>
           new_articles =
               ExpectedArticles(Registry[src], SubSeq(article_urls, 1, au - 1), now)
    /\ (pc = "crashed" /\ crash.at = "download_articles") =>
           Web(Registry[src].datasource, article_urls[au][1]).exc # "URLError"
    /\ \A s \in 1..Len(per_source) :
           feeds[s].exc = "none" =>
               LET us == download_rss(Registry[s].datasource, feeds[s]).val IN
               /\ per_source[s] = ExpectedArticles(Registry[s], us, now)
               /\ Len(per_source[s]) =
                      Len(us) - Cardinality(Failing(Registry[s].datasource, us))

\* A source whose first URL raised URLError returned the article of its second
C4_Witness ==
    \E s \in 1..Len(per_source) :
        /\ feeds[s] = Return(<<<<"bad">>, <<"a1">>>>)
        /\ Len(per_source[s]) = 1
        /\ per_source[s][1].title = <<"T1">>

\* The elements a page lacks
TitleMissing(datasource, page) ==
    IF datasource = NHK THEN ~page.h1.has ELSE page.h1s = <<>>

DateMissing(datasource, page) ==
    IF datasource = NHK THEN ~page.date_p.has \/ ~page.date_p.text.has
    ELSE ~page.time.has

BodyMissing(datasource, page) ==
    IF datasource = NHK THEN ~page.summary.has /\ ~page.div.has
    ELSE ~page.div.has

\* The page with an element put where one is missing
Completed(datasource, page) ==
    LET h1 == <<Span(<<"s">>), TextNode(<<"T">>)>>
        ps == <<<<"p">>>>
    IN  IF datasource = NHK
            THEN [page EXCEPT
                     !.h1 = IF TitleMissing(NHK, page) THEN Present(h1) ELSE @,
                     !.date_p = IF DateMissing(NHK, page)
                                    THEN Present(Present(GoodDate)) ELSE @,
                     !.div = IF BodyMissing(NHK, page) THEN Present(ps) ELSE @]
            ELSE [page EXCEPT
                     !.h1s = IF TitleMissing(Asahi, page) THEN <<h1>> ELSE @,
                     !.time = IF DateMissing(Asahi, page) THEN Present(GoodDate) ELSE @,
                     !.div = IF BodyMissing(Asahi, page) THEN Present(ps) ELSE @]

\* C5: whatever elements a page lacks, download_articles_* raises nothing;
\* the field of a missing element is empty (the date may be the text of the
\* clock), and each other field is what the call extracts from the page
\* with no element missing.
C5_AdapterIndependence ==
    pc = "returned" =>
        LET ds == arg.datasource
            page == arg.fetched.val
            whole == download_articles(ds, Return(Completed(ds, page)), now)
        IN  /\ ret.exc = "none"
            /\ ret.val[1] = IF TitleMissing(ds, page) THEN <<>> ELSE whole.val[1]
            /\ IF DateMissing(ds, page)
                   THEN ret.val[2] \in {<<>>, ClockText(now)}
                   ELSE ret.val[2] = whole.val[2]
            /\ ret.val[3] = IF BodyMissing(ds, page) THEN <<>> ELSE whole.val[3]

\* What the date text of a call lacks: a marker, the digits before a
\* marker, or a calendar date in its five numbers
Defective(dt) ==
    \/ \E m \in {"nen", "gatsu", "nichi", "ji", "fun"} : FirstGroup(m, dt).exc # "none"
    \/ ~ValidDateTime(FirstGroup("nen", dt).val, FirstGroup("gatsu", dt).val,
                      FirstGroup("nichi", dt).val, FirstGroup("ji", dt).val,
                      FirstGroup("fun", dt).val)

\* C6: jp_date_to_yyyymmdd raises nothing, and gives the text of the clock
\* for a date text that lacks a marker, the digits of a group or a valid
\* calendar date.
C6_DateFallback ==
    pc = "returned" =>
        /\ ret.exc = "none"
        /\ Defective(arg) => ret.val = ClockText(now)

\* C7: download_rss_* returns the contents of all <link> elements of the
\* feed in document order but the denylisted URLs of the origin, all
\* occurrences of which are left out.
C7_LinkExtraction ==
    (pc = "returned" /\ arg.fetched.exc = "none") =>
        LET links == Flatten(arg.fetched.val)
            Kept(u) == ~Contains(bad_urls(arg.datasource), u)
            kept == SelectSeq(links, Kept)
        IN  ret = Return([i \in 1..Len(kept) |-> <<kept[i]>>])

\* C8: no exception raised while one article is fetched or parsed ends
\* download(), which writes its batch once at most.
C8_NoArticleErrorPropagates ==
    /\ ~(pc = "crashed" /\ crash.at = "download_articles")
    /\ writes <= 1

\* The outcomes process_articles gives the articles of a batch, from rows on
RECURSIVE InsertOutcomes(_, _)
InsertOutcomes(rows, batch) ==
    IF batch = <<>> THEN <<>>
    ELSE LET got == Execute(rows, INSERT_ARTICLE, Head(batch)) IN
         IF got.exc = "none"
             THEN <<"success">> \o InsertOutcomes(got.val, Tail(batch))
             ELSE <<"failure">> \o InsertOutcomes(rows, Tail(batch))

\* C9: in process_articles every filtered article is tried, one after the
\* other, whatever became of those before it; the rows the table held and
\* the rows inserted stay; an article's outcome is what it would be with a
\* failed article left out of the batch; and on return
\* total = success + failure = the number of filtered articles.
C9_InsertionIndependence ==
    /\ pc = "insert_articles" =>
           /\ Len(outcomes) = idx - 1
           /\ processed.total = Len(outcomes)
    /\ processed.total = processed.success + processed.failure
    /\ (pc = "idle" /\ run >= 1) => processed.total = Len(filtered)
    /\ pc \in {"insert_articles", "idle"} =>
           /\ Len(store) >= Len(store0)
           /\ SubSeq(store, 1, Len(store0)) = store0
           /\ \A i \in 1..Len(outcomes) :
                  outcomes[i] = "failure" =>
                      RemoveAt(outcomes, i) =
                          InsertOutcomes(store0,
                              RemoveAt(SubSeq(filtered, 1, Len(outcomes)), i))

\* process_articles returned after an insert failed and a later one was tried
C9_Witness ==
    /\ pc = "idle" /\ run >= 1
    /\ Len(filtered) >= 2
    /\ outcomes[1] = "failure"
    /\ Len(outcomes) = Len(filtered)
    /\ processed.total = Len(filtered)

\* The articles of the sources whose feed was fetched, source after source
RECURSIVE OfSourcesFetched(_, _)
OfSourcesFetched(s, results) ==
    IF s > Len(results) THEN <<>>
    ELSE (IF feeds[s].exc = "none" THEN results[s] ELSE <<>>)
             \o OfSourcesFetched(s + 1, results)

\* C10: a feed whose fetch raises gives download_source no URL and no
\* article and never ends download(), which goes on with the next source of
\* the registry; the batch written is the articles of the sources whose
\* feed was fetched, in registry order.
C10_SourceIsolation ==
    /\ crash.at # "download_rss"
    /\ (pc = "download_articles" /\ feeds[src].exc # "none") => article_urls = <<>>
    /\ \A s \in 1..Len(per_source) : feeds[s].exc # "none" => per_source[s] = <<>>
    /\ pc = "download_source" => Len(per_source) = src - 1
    /\ pc = "downloaded" =>
           /\ Len(per_source) = Len(Registry)
           /\ incoming = <<OfSourcesFetched(1, per_source)>>

\* The first feed failed on an unexpected exception and the batch written
\* holds the articles of the second
C10_Witness ==
    /\ pc = "downloaded"
    /\ feeds[1] = Raise("UnicodeDecodeError")
    /\ per_source[1] = <<>>
    /\ Len(incoming[1]) >= 1
    /\ incoming[1] = per_source[2]

\* A "%Y-%m-%d %H:%M:%S" text: six numbers that name a date and a time
IsTimestamp(text) ==
    /\ Len(text) = 6
    /\ ValidDateTime(text[1], text[2], text[3], text[4], text[5])
    /\ text[6] >= 0 /\ text[6] <= 59

\* C11: every article download_source appends to its list, and so every
\* article of the batch, has a pub_date that is a YYYY-MM-DD HH:MM:SS text:
\* the one read from the page or the text of the clock.
C11_PubDateWellFormed ==
    /\ \A i \in 1..Len(new_articles) : IsTimestamp(new_articles[i].pub_date)
    /\ \A i \in 1..Len(articles) : IsTimestamp(articles[i].pub_date)

=============================================================================
